---- MODULE Spec2Model ----
(***************************************************************************)
(* Log streaming of ScaffolderClient (plugins/scaffolder/src/api.ts):      *)
(* streamLogs, streamLogsEventStream and streamLogsPolling, together with  *)
(* the collaborators they drive: the zen-observable subscriber, the        *)
(* discovery promise, fetch, and the fetchEventSource connection.          *)
(***************************************************************************)
EXTENDS Integers, Sequences, FiniteSets, TLC

\* ------------------------------------------------------------------ bounds
MaxBatch == 2       \* events in one polling response
MaxDeliver == 2     \* events one open subscription is offered in total
MaxRequests == 3    \* network requests one subscription issues

\* `after === undefined`: no cursor (api.ts:230, qs.stringify omits it)
NoCursor == -1

Subs == {1, 2}      \* subscriptions
Obs == {1, 2}       \* Observables returned by streamLogs calls
Ordinals == {1, 2}  \* ordinals (LogEvent.id) the server hands out
Cursors == {NoCursor} \cup Ordinals
InputCursors == {NoCursor, 1}  \* `after` options tried: absent, or ordinal 1

\* ------------------------------------------------------------ data model
\* LogEvent as far as the client reads it: id and type.
LogTypes == {"log", "completion"}
LogEvents == [id : Ordinals, type : LogTypes]

RECURSIVE SeqsUpTo(_, _)
SeqsUpTo(S, n) ==
    IF n = 0 THEN {<<>>}
    ELSE LET shorter == SeqsUpTo(S, n - 1)
         IN shorter \cup {Append(q, x) : q \in {r \in shorter : Len(r) = n - 1}, x \in S}

\* Bodies of successful /events responses: JSON arrays of LogEvent.
Batches == SeqsUpTo(LogEvents, MaxBatch)

\* EventSourceMessage: event name and string payload.  A payload is the
\* empty string, a string JSON.parse rejects, or the JSON text of an event.
FrameNames == {"log", "completion", "other"}
EmptyData == [kind |-> "empty", id |-> 0, type |-> ""]
BadData == [kind |-> "bad", id |-> 0, type |-> ""]
JsonData(ev) == [kind |-> "json", id |-> ev.id, type |-> ev.type]
Payloads(name) ==
    {EmptyData, BadData} \cup {JsonData([id |-> i, type |-> name]) : i \in Ordinals}
Frames == UNION {{[event |-> n, data |-> d] : d \in Payloads(n)} : n \in FrameNames}

\* JSON.parse(event.data): a value, or a throw.
JSONParse(data) ==
    [ok |-> data.kind = "json", value |-> [id |-> data.id, type |-> data.type]]
Truthy_Always(data) == TRUE

\* `if (event.data)`: the empty string is falsy.
Truthy(data) == data.kind # "empty"

\* constructor: `this.useLongPollingLogs = options.useLongPollingLogs ?? false`
ClientOptions == {"undefined", "true", "false"}
constructorUseLongPollingLogs(option) ==
    IF option = "undefined" THEN FALSE ELSE option = "true"

VARIABLES
    useLongPollingLogs,   \* client option, fixed by the constructor
    isTaskRecoverable,    \* [Obs -> BOOLEAN], option of the streamLogs call
    inputAfter,           \* [Obs -> Cursors], option of the streamLogs call
    after,                \* [Obs -> Cursors], `let after` of streamLogsPolling
    obsOf,                \* [Subs -> Obs], the Observable a subscription is on
    subscriber,           \* [Subs -> subscription observer state]
    pc,                   \* [Subs -> position of the transport]
    dispatching,          \* [Subs -> more frames of the chunk just read are to be dispatched]
    reqAfter,             \* [Subs -> cursor carried by the latest request]
    nReq,                 \* [Subs -> requests issued]
    nFail,                \* [Subs -> non-ok polling responses received]
    nDelay,               \* [Subs -> retry delays elapsed]
    nOk,                  \* [Subs -> ok polling responses processed]
    logs,                 \* [Subs -> `logs`, the body of the latest ok response]
    cursorHonoured,       \* [Subs -> the server sent only events after reqAfter]
    recancelled           \* [Subs -> unsubscribe() was called on the closed subscription]

vars == <<useLongPollingLogs, isTaskRecoverable, inputAfter, after, obsOf,
          subscriber, pc, dispatching, reqAfter, nReq, nFail, nDelay, nOk, logs,
          cursorHonoured, recancelled>>

\* ------------------------------------------- zen-observable subscriber
\* closed/delivered/errors/completes is what the observer of the caller has
\* seen; cancelled records that the close came from unsubscribe().
NewSubscriber ==
    [closed |-> FALSE, delivered |-> <<>>, errors |-> 0, completes |-> 0,
     cancelled |-> FALSE]

SubscriberNext_NoClosedCheck(sub, value) ==
    [sub EXCEPT !.delivered = Append(@, value)]

\* subscriber.next(value)
SubscriberNext(sub, value) ==
    IF sub.closed THEN sub
    ELSE [sub EXCEPT !.delivered = Append(@, value)]

\* subscriber.error(err)
SubscriberError(sub) ==
    IF sub.closed THEN sub
    ELSE [sub EXCEPT !.closed = TRUE, !.errors = @ + 1]

SubscriberComplete_NoClosedCheck(sub) ==
    [sub EXCEPT !.closed = TRUE, !.completes = @ + 1]

\* subscriber.complete()
SubscriberComplete(sub) ==
    IF sub.closed THEN sub
    ELSE [sub EXCEPT !.closed = TRUE, !.completes = @ + 1]

SubscriptionUnsubscribe_NoClosedCheck(sub) ==
    [sub EXCEPT !.closed = TRUE, !.cancelled = TRUE]

\* subscription.unsubscribe(): the subscriber functions return no cleanup,
\* so closing the subscription is all it does.
SubscriptionUnsubscribe(sub) ==
    IF sub.closed THEN sub
    ELSE [sub EXCEPT !.closed = TRUE, !.cancelled = TRUE]

\* ------------------------------------------------------------ streamLogs
\* `if (this.useLongPollingLogs) return this.streamLogsPolling(options)`
Polling(s) == useLongPollingLogs

EventStream_IgnoresOption(s) == TRUE

\* `return this.streamLogsEventStream(options)`
EventStream(s) == ~useLongPollingLogs

\* No chunk is being dispatched: the event loop is between tasks.
Idle == \A s \in Subs : ~dispatching[s]

\* The server sent only events with ordinal above the cursor of the request.
Honours(cursor, ids) == \A i \in ids : i > cursor

\* ----------------------------------------------------- streamLogsPolling
LoopHead_NoClosedCheck(s, sub, cur) ==
    /\ nReq[s] < MaxRequests
    /\ pc' = [pc EXCEPT ![s] = "fetching"]
    /\ nReq' = [nReq EXCEPT ![s] = @ + 1]
    /\ reqAfter' = [reqAfter EXCEPT ![s] = cur]

\* `while (!subscriber.closed) { url = ...?after; fetch(url)`: the loop head
\* either leaves the loop or issues the next request with the current cursor.
LoopHead(s, sub, cur) ==
    IF sub.closed
    THEN /\ pc' = [pc EXCEPT ![s] = "done"]
         /\ UNCHANGED <<nReq, reqAfter>>
    ELSE /\ nReq[s] < MaxRequests
         /\ pc' = [pc EXCEPT ![s] = "fetching"]
         /\ nReq' = [nReq EXCEPT ![s] = @ + 1]
         /\ reqAfter' = [reqAfter EXCEPT ![s] = cur]

\* getBaseUrl('scaffolder') resolved: the async callback enters the loop.
PollingBaseUrlResolved(s) ==
    /\ Idle /\ Polling(s) /\ pc[s] = "resolving"
    /\ LoopHead(s, subscriber[s], after[obsOf[s]])
    /\ UNCHANGED <<useLongPollingLogs, recancelled, isTaskRecoverable, inputAfter, after, obsOf,
                   subscriber, dispatching, nFail, nDelay, nOk, logs,
                   cursorHonoured>>

\* getBaseUrl('scaffolder') rejected: then() was given no rejection handler.
PollingBaseUrlRejected(s) ==
    /\ Idle /\ Polling(s) /\ pc[s] = "resolving"
    /\ pc' = [pc EXCEPT ![s] = "dead"]
    /\ UNCHANGED <<useLongPollingLogs, recancelled, isTaskRecoverable, inputAfter, after, obsOf,
                   subscriber, dispatching, reqAfter, nReq, nFail, nDelay, nOk, logs,
                   cursorHonoured>>

FetchNotOk_SurfaceError(s) ==
    /\ Idle /\ Polling(s) /\ pc[s] = "fetching"
    /\ pc' = [pc EXCEPT ![s] = "done"]
    /\ subscriber' = [subscriber EXCEPT ![s] = SubscriberError(@)]
    /\ nFail' = [nFail EXCEPT ![s] = @ + 1]
    /\ UNCHANGED <<useLongPollingLogs, recancelled, isTaskRecoverable, inputAfter, after, obsOf,
                   dispatching, reqAfter, nReq, nDelay, nOk, logs,
                   cursorHonoured>>

FetchNotOk_NoDelay(s) ==
    /\ Idle /\ Polling(s) /\ pc[s] = "fetching"
    /\ nFail' = [nFail EXCEPT ![s] = @ + 1]
    /\ LoopHead(s, subscriber[s], after[obsOf[s]])
    /\ UNCHANGED <<useLongPollingLogs, recancelled, isTaskRecoverable, inputAfter, after, obsOf,
                   subscriber, dispatching, nDelay, nOk, logs, cursorHonoured>>

\* `if (!response.ok)`: start the one second timer.
FetchNotOk(s) ==
    /\ Idle /\ Polling(s) /\ pc[s] = "fetching"
    /\ nReq[s] < MaxRequests
    /\ pc' = [pc EXCEPT ![s] = "delay"]
    /\ nFail' = [nFail EXCEPT ![s] = @ + 1]
    /\ UNCHANGED <<useLongPollingLogs, recancelled, isTaskRecoverable, inputAfter, after, obsOf,
                   subscriber, dispatching, reqAfter, nReq, nDelay, nOk, logs,
                   cursorHonoured>>

\* The timer fired: `continue` goes back to the loop head.
RetryDelayElapsed(s) ==
    /\ Idle /\ Polling(s) /\ pc[s] = "delay"
    /\ nDelay' = [nDelay EXCEPT ![s] = @ + 1]
    /\ LoopHead(s, subscriber[s], after[obsOf[s]])
    /\ UNCHANGED <<useLongPollingLogs, recancelled, isTaskRecoverable, inputAfter, after, obsOf,
                   subscriber, dispatching, nFail, nOk, logs,
                   cursorHonoured>>

\* `for (const event of logs)`; st = [sub, after, returned].  unsubAt = i
\* is the observer unsubscribing inside its next() callback for event i.
RECURSIVE forLogs(_, _, _, _)
forLogs(batch, i, unsubAt, st) ==
    IF i > Len(batch) THEN st
    ELSE LET event == batch[i]
             sub1 == SubscriberNext(st.sub, event)
             sub2 == IF unsubAt = i THEN SubscriptionUnsubscribe(sub1) ELSE sub1
         IN IF event.type = "completion"
            THEN [sub |-> SubscriberComplete(sub2), after |-> event.id,
                  returned |-> TRUE]
            ELSE forLogs(batch, i + 1, unsubAt,
                         [sub |-> sub2, after |-> event.id, returned |-> FALSE])

RECURSIVE forLogs_CompletionIgnored(_, _, _, _)
forLogs_CompletionIgnored(batch, i, unsubAt, st) ==
    IF i > Len(batch) THEN st
    ELSE LET event == batch[i]
             sub1 == SubscriberNext(st.sub, event)
             sub2 == IF unsubAt = i THEN SubscriptionUnsubscribe(sub1) ELSE sub1
         IN forLogs_CompletionIgnored(batch, i + 1, unsubAt,
                [sub |-> sub2, after |-> event.id, returned |-> FALSE])

processLogs_CompletionIgnored(batch, unsubAt, st) ==
    forLogs_CompletionIgnored(batch, 1, unsubAt, st)

\* The body of the loop after a successful response.
processLogs(batch, unsubAt, st) == forLogs(batch, 1, unsubAt, st)

\* The observer can only unsubscribe inside a callback that ran.
UnsubPoints(sub, batch) == IF sub.closed THEN {0} ELSE 0..Len(batch)

\* response.ok and response.json() resolved to body.
FetchOk(s, body, unsubAt) ==
    /\ Idle /\ Polling(s) /\ pc[s] = "fetching"
    /\ unsubAt \in UnsubPoints(subscriber[s], body)
    /\ logs' = [logs EXCEPT ![s] = body]
    /\ nOk' = [nOk EXCEPT ![s] = @ + 1]
    /\ LET st == processLogs(body, unsubAt,
                     [sub |-> subscriber[s], after |-> after[obsOf[s]],
                      returned |-> FALSE])
       IN /\ Len(st.sub.delivered) <= MaxDeliver
          /\ subscriber' = [subscriber EXCEPT ![s] = st.sub]
          /\ after' = [after EXCEPT ![obsOf[s]] = st.after]
          /\ IF st.returned
             THEN /\ pc' = [pc EXCEPT ![s] = "done"]
                  /\ UNCHANGED <<nReq, reqAfter>>
             ELSE LoopHead(s, st.sub, st.after)
    /\ cursorHonoured' = [cursorHonoured EXCEPT
           ![s] = @ /\ Honours(reqAfter[s], {body[i].id : i \in 1..Len(body)})]
    /\ UNCHANGED <<useLongPollingLogs, recancelled, isTaskRecoverable, inputAfter, obsOf,
                   dispatching, nFail, nDelay>>

\* fetch() rejected (network failure): the async callback rejects, unhandled.
FetchRejected(s) ==
    /\ Idle /\ Polling(s) /\ pc[s] = "fetching"
    /\ pc' = [pc EXCEPT ![s] = "dead"]
    /\ UNCHANGED <<useLongPollingLogs, recancelled, isTaskRecoverable, inputAfter, after, obsOf,
                   subscriber, dispatching, reqAfter, nReq, nFail, nDelay, nOk, logs,
                   cursorHonoured>>

\* response.ok but response.json() rejected: the same unhandled rejection.
JsonRejected(s) ==
    /\ Idle /\ Polling(s) /\ pc[s] = "fetching"
    /\ pc' = [pc EXCEPT ![s] = "dead"]
    /\ UNCHANGED <<useLongPollingLogs, recancelled, isTaskRecoverable, inputAfter, after, obsOf,
                   subscriber, dispatching, reqAfter, nReq, nFail, nDelay, nOk, logs,
                   cursorHonoured>>

\* ------------------------------------------------- streamLogsEventStream
\* `params.set('after', String(Number(after)))` when after is defined.
eventStreamParams(a) == IF a # NoCursor THEN {<<"after", a>>} ELSE {}

\* The cursor the connection request carries: url is
\* `${baseUrl}/v2/tasks/${taskId}/eventstream`, built without params.
eventStreamUrlCursor(params) == NoCursor

\* processEvent(event); unsub is the observer unsubscribing inside next().
processEvent_SwallowParseError(sub, event, unsub) ==
    IF Truthy(event.data) /\ JSONParse(event.data).ok
    THEN LET sub1 == SubscriberNext(sub, JSONParse(event.data).value)
         IN IF unsub THEN SubscriptionUnsubscribe(sub1) ELSE sub1
    ELSE sub

processEvent(sub, event, unsub) ==
    IF Truthy(event.data)
    THEN LET parsed == JSONParse(event.data)
         IN IF parsed.ok
            THEN LET sub1 == SubscriberNext(sub, parsed.value)
                 IN IF unsub THEN SubscriptionUnsubscribe(sub1) ELSE sub1
            ELSE SubscriberError(sub)
    ELSE sub

onmessage_CompletionAlwaysTerminal(e, recoverable, unsub, sub) ==
    IF e.event = "completion"
    THEN [sub |-> SubscriberComplete(processEvent(sub, e, unsub)), abort |-> TRUE]
    ELSE [sub |-> processEvent(sub, e, unsub), abort |-> FALSE]

onmessage_CompleteBeforeForward(e, recoverable, unsub, sub) ==
    IF e.event = "completion" /\ ~recoverable
    THEN [sub |-> processEvent(SubscriberComplete(sub), e, unsub), abort |-> TRUE]
    ELSE [sub |-> processEvent(sub, e, unsub), abort |-> FALSE]

onmessage_UnknownNameDropped(e, recoverable, unsub, sub) ==
    IF e.event = "log"
    THEN [sub |-> processEvent(sub, e, unsub), abort |-> FALSE]
    ELSE IF e.event = "completion"
         THEN IF recoverable
              THEN [sub |-> processEvent(sub, e, unsub), abort |-> FALSE]
              ELSE [sub |-> SubscriberComplete(processEvent(sub, e, unsub)),
                    abort |-> TRUE]
         ELSE [sub |-> sub, abort |-> FALSE]

\* onmessage(e): the new subscriber state and whether ctrl.abort() ran.
onmessage(e, recoverable, unsub, sub) ==
    IF e.event = "log"
    THEN [sub |-> processEvent(sub, e, unsub), abort |-> FALSE]
    ELSE IF e.event = "completion" /\ ~recoverable
         THEN [sub |-> SubscriberComplete(processEvent(sub, e, unsub)),
               abort |-> TRUE]
         ELSE [sub |-> processEvent(sub, e, unsub), abort |-> FALSE]

\* The observer's next() callback runs for this frame.
CallbackRuns(sub, e) == ~sub.closed /\ Truthy(e.data) /\ JSONParse(e.data).ok

\* getBaseUrl('scaffolder') resolved: new AbortController, fetchEventSource
\* issues the connection request (the subscription is not looked at).
EventStreamBaseUrlResolved(s) ==
    /\ Idle /\ EventStream(s) /\ pc[s] = "resolving"
    /\ pc' = [pc EXCEPT ![s] = "connecting"]
    /\ nReq' = [nReq EXCEPT ![s] = @ + 1]
    /\ reqAfter' = [reqAfter EXCEPT
           ![s] = eventStreamUrlCursor(eventStreamParams(inputAfter[obsOf[s]]))]
    /\ UNCHANGED <<useLongPollingLogs, recancelled, isTaskRecoverable, inputAfter, after, obsOf,
                   subscriber, dispatching, nFail, nDelay, nOk, logs,
                   cursorHonoured>>

\* getBaseUrl('scaffolder') rejected: `error => subscriber.error(error)`.
EventStreamBaseUrlRejected(s) ==
    /\ Idle /\ EventStream(s) /\ pc[s] = "resolving"
    /\ pc' = [pc EXCEPT ![s] = "failed"]
    /\ subscriber' = [subscriber EXCEPT ![s] = SubscriberError(@)]
    /\ UNCHANGED <<useLongPollingLogs, recancelled, isTaskRecoverable, inputAfter, after, obsOf,
                   dispatching, reqAfter, nReq, nFail, nDelay, nOk, logs,
                   cursorHonoured>>

\* The connection request was answered with an event stream.
ConnectionOpened(s) ==
    /\ Idle /\ EventStream(s) /\ pc[s] = "connecting"
    /\ pc' = [pc EXCEPT ![s] = "open"]
    /\ UNCHANGED <<useLongPollingLogs, recancelled, isTaskRecoverable, inputAfter, after, obsOf,
                   subscriber, dispatching, reqAfter, nReq, nFail, nDelay, nOk, logs,
                   cursorHonoured>>

\* onerror(err) { subscriber.error(err) }: it returns normally, so
\* fetchEventSource arms its retry timer.
onerror(s) ==
    /\ pc' = [pc EXCEPT ![s] = "retrying"]
    /\ subscriber' = [subscriber EXCEPT ![s] = SubscriberError(@)]

\* The connection request failed (network, status, content type).
ConnectionFailed(s) ==
    /\ Idle /\ EventStream(s) /\ pc[s] = "connecting"
    /\ onerror(s)
    /\ UNCHANGED <<useLongPollingLogs, recancelled, isTaskRecoverable, inputAfter, after, obsOf,
                   dispatching, reqAfter, nReq, nFail, nDelay, nOk, logs,
                   cursorHonoured>>

\* The open connection broke.
ConnectionDropped(s) ==
    /\ Idle /\ EventStream(s) /\ pc[s] = "open"
    /\ onerror(s)
    /\ UNCHANGED <<useLongPollingLogs, recancelled, isTaskRecoverable, inputAfter, after, obsOf,
                   dispatching, reqAfter, nReq, nFail, nDelay, nOk, logs,
                   cursorHonoured>>

\* The retry timer of fetchEventSource fired: the same url is requested again.
RetryTimerFired(s) ==
    /\ Idle /\ EventStream(s) /\ pc[s] = "retrying"
    /\ nReq[s] < MaxRequests
    /\ pc' = [pc EXCEPT ![s] = "connecting"]
    /\ nReq' = [nReq EXCEPT ![s] = @ + 1]
    /\ reqAfter' = [reqAfter EXCEPT
           ![s] = eventStreamUrlCursor(eventStreamParams(inputAfter[obsOf[s]]))]
    /\ UNCHANGED <<useLongPollingLogs, recancelled, isTaskRecoverable, inputAfter, after, obsOf,
                   subscriber, dispatching, nFail, nDelay, nOk, logs,
                   cursorHonoured>>

\* The server ended the stream: fetchEventSource resolves, no callback runs.
StreamEnded(s) ==
    /\ Idle /\ EventStream(s) /\ pc[s] = "open"
    /\ pc' = [pc EXCEPT ![s] = "ended"]
    /\ UNCHANGED <<useLongPollingLogs, recancelled, isTaskRecoverable, inputAfter, after, obsOf,
                   subscriber, dispatching, reqAfter, nReq, nFail, nDelay, nOk, logs,
                   cursorHonoured>>

\* A frame is dispatched to onmessage.  One read of the response body can
\* hold several frames, which the line parser dispatches back to back: the
\* first frame of a chunk needs the open connection, the frames behind it
\* are dispatched whatever happened meanwhile; more says whether the chunk
\* holds further frames.
OnMessage(s, e, unsub, more) ==
    /\ EventStream(s)
    /\ dispatching[s] \/ (Idle /\ pc[s] = "open")
    /\ unsub => CallbackRuns(subscriber[s], e)
    /\ CallbackRuns(subscriber[s], e) => Len(subscriber[s].delivered) < MaxDeliver
    /\ LET r == onmessage(e, isTaskRecoverable[obsOf[s]], unsub, subscriber[s])
       IN /\ subscriber' = [subscriber EXCEPT ![s] = r.sub]
          /\ pc' = [pc EXCEPT ![s] = IF r.abort THEN "aborted" ELSE @]
    /\ cursorHonoured' = [cursorHonoured EXCEPT
           ![s] = @ /\ (e.data.kind = "json" => Honours(reqAfter[s], {e.data.id}))]
    /\ dispatching' = [dispatching EXCEPT ![s] = more]
    /\ UNCHANGED <<useLongPollingLogs, recancelled, isTaskRecoverable, inputAfter, after, obsOf,
                   reqAfter, nReq, nFail, nDelay, nOk, logs>>

\* ------------------------------------------------------------ the caller
\* The caller unsubscribes between two tasks of the event loop.
Unsubscribe(s) ==
    /\ Idle /\ pc[s] # "unsubscribed"
    /\ subscriber' = [subscriber EXCEPT ![s] = SubscriptionUnsubscribe(@)]
    /\ recancelled' = [recancelled EXCEPT ![s] = @ \/ subscriber[s].closed]
    /\ UNCHANGED <<useLongPollingLogs, isTaskRecoverable, inputAfter, after, obsOf,
                   pc, dispatching, reqAfter, nReq, nFail, nDelay, nOk, logs,
                   cursorHonoured>>

\* ------------------------------------------------------- specification
\* One client, one streamLogs call, one subscription to its Observable.
Init ==
    /\ \E option \in ClientOptions :
           useLongPollingLogs = constructorUseLongPollingLogs(option)
    /\ \E r \in BOOLEAN : isTaskRecoverable = [o \in Obs |-> r]
    /\ \E a \in InputCursors : inputAfter = [o \in Obs |-> a]
    /\ after = inputAfter
    /\ obsOf = [s \in Subs |-> 1]
    /\ subscriber = [s \in Subs |-> NewSubscriber]
    /\ pc = [s \in Subs |-> IF s = 1 THEN "resolving" ELSE "unsubscribed"]
    /\ dispatching = [s \in Subs |-> FALSE]
    /\ reqAfter = [s \in Subs |-> NoCursor]
    /\ nReq = [s \in Subs |-> 0]
    /\ nFail = [s \in Subs |-> 0]
    /\ nDelay = [s \in Subs |-> 0]
    /\ nOk = [s \in Subs |-> 0]
    /\ logs = [s \in Subs |-> <<>>]
    /\ cursorHonoured = [s \in Subs |-> TRUE]
    /\ recancelled = [s \in Subs |-> FALSE]

Next ==
    \/ \E s \in Subs : PollingBaseUrlResolved(s)
    \/ \E s \in Subs : PollingBaseUrlRejected(s)
    \/ \E s \in Subs : FetchNotOk(s)
    \/ \E s \in Subs : RetryDelayElapsed(s)
    \/ \E s \in Subs, body \in Batches, unsubAt \in 0..MaxBatch :
           FetchOk(s, body, unsubAt)
    \/ \E s \in Subs : FetchRejected(s)
    \/ \E s \in Subs : JsonRejected(s)
    \/ \E s \in Subs : EventStreamBaseUrlResolved(s)
    \/ \E s \in Subs : EventStreamBaseUrlRejected(s)
    \/ \E s \in Subs : ConnectionOpened(s)
    \/ \E s \in Subs : ConnectionFailed(s)
    \/ \E s \in Subs : ConnectionDropped(s)
    \/ \E s \in Subs : RetryTimerFired(s)
    \/ \E s \in Subs : StreamEnded(s)
    \/ \E s \in Subs, e \in Frames, unsub \in BOOLEAN, more \in BOOLEAN :
           OnMessage(s, e, unsub, more)
    \/ \E s \in Subs : Unsubscribe(s)

Spec == Init /\ [][Next]_vars

\* ------------------------------------- two concurrent polling subscriptions
\* A polling client with two subscriptions running at once: the second is on
\* the Observable of the first (subscribe() called twice on one streamLogs
\* result) or on the Observable of a second streamLogs call.  The server is
\* well behaved: every batch is in non-decreasing ordinal order and holds
\* only events after the cursor of its request.  The task is still running:
\* the batches hold log events only.
SharedOrdinals == {1, 2, 3}
SharedEvents == [id : SharedOrdinals, type : {"log"}]

NonDecreasing(events) ==
    \A i \in 1..(Len(events) - 1) : events[i].id <= events[i + 1].id

SharedBatches == {b \in SeqsUpTo(SharedEvents, MaxBatch) : NonDecreasing(b)}

InitShared ==
    /\ useLongPollingLogs = constructorUseLongPollingLogs("true")
    /\ isTaskRecoverable = [o \in Obs |-> FALSE]
    /\ \E a \in InputCursors : inputAfter = [o \in Obs |-> a]
    /\ after = inputAfter
    /\ \E o \in Obs : obsOf = [s \in Subs |-> IF s = 1 THEN 1 ELSE o]
    /\ subscriber = [s \in Subs |-> NewSubscriber]
    /\ pc = [s \in Subs |-> "resolving"]
    /\ dispatching = [s \in Subs |-> FALSE]
    /\ reqAfter = [s \in Subs |-> NoCursor]
    /\ nReq = [s \in Subs |-> 0]
    /\ nFail = [s \in Subs |-> 0]
    /\ nDelay = [s \in Subs |-> 0]
    /\ nOk = [s \in Subs |-> 0]
    /\ logs = [s \in Subs |-> <<>>]
    /\ cursorHonoured = [s \in Subs |-> TRUE]
    /\ recancelled = [s \in Subs |-> FALSE]

NextShared ==
    \/ \E s \in Subs : PollingBaseUrlResolved(s)
    \/ \E s \in Subs : FetchNotOk(s)
    \/ \E s \in Subs : RetryDelayElapsed(s)
    \/ \E s \in Subs, body \in SharedBatches, unsubAt \in 0..MaxBatch :
           /\ Honours(reqAfter[s], {body[i].id : i \in 1..Len(body)})
           /\ FetchOk(s, body, unsubAt)

SpecShared == InitShared /\ [][NextShared]_vars

\* ------------------------------------------------------------ properties
Delivered(s) == subscriber[s].delivered
Closed(s) == subscriber[s].closed

\* The step is FetchOk for s (its body is then logs'[s]).
StepFetchOk(s) == \E unsubAt \in 0..MaxBatch : FetchOk(s, logs'[s], unsubAt)

\* The step dispatches frame e to the onmessage of s.
StepOnMessage(s, e) == \E unsub \in BOOLEAN, more \in BOOLEAN : OnMessage(s, e, unsub, more)

HasCompletion(batch) == \E i \in 1..Len(batch) : batch[i].type = "completion"
FirstCompletion(batch) ==
    CHOOSE i \in 1..Len(batch) :
        /\ batch[i].type = "completion"
        /\ \A j \in 1..(i - 1) : batch[j].type # "completion"

\* C1: in both transports, once a subscription is closed (completion,
\* surfaced error, or cancellation at any point, also while a fetch is in
\* flight or a retry delay is pending) no further event is forwarded,
\* whatever frames or batches arrive afterwards; a cancellation from inside
\* a callback stops the forwarding of the rest of the batch.
C1_NoEventAfterClose ==
    [][\A s \in Subs :
         /\ Closed(s) => Delivered(s)' = Delivered(s)
         /\ (~subscriber[s].cancelled /\ subscriber'[s].cancelled /\ StepFetchOk(s))
               => \E n \in 0..Len(logs'[s]) :
                     /\ Delivered(s)' = Delivered(s) \o SubSeq(logs'[s], 1, n)
                     /\ \A unsubAt \in 1..MaxBatch :
                            FetchOk(s, logs'[s], unsubAt) => n = unsubAt]_vars

\* C1 witness: the caller cancelled while the second polling request was in
\* flight, and the batch that then arrived was not forwarded.
C1_Witness ==
    \E s \in Subs :
        /\ Polling(s) /\ subscriber[s].cancelled /\ pc[s] = "done"
        /\ nOk[s] = 2 /\ logs[s] # <<>>
        /\ Len(Delivered(s)) = 1 /\ ~HasCompletion(Delivered(s))

\* C2 (as claimed): a closed subscription has no open event-stream
\* connection and no in-flight polling request.
C2_ClosedHasNoNetworkOperation ==
    \A s \in Subs : Closed(s) => pc[s] \notin {"connecting", "open", "fetching"}

\* C3: in the polling transport, for any isTaskRecoverable, the first
\* completion event of a batch is the last event forwarded: it is forwarded,
\* the subscription is completed, the rest of the batch is discarded and no
\* further batch request is issued.
C3_PollingCompletionIsLast ==
    [][\A s \in Subs :
         /\ (StepFetchOk(s) /\ HasCompletion(logs'[s])) =>
               LET k == FirstCompletion(logs'[s])
               IN /\ pc'[s] = "done" /\ nReq'[s] = nReq[s]
                  /\ Closed(s)'
                  /\ (~Closed(s) /\ ~subscriber'[s].cancelled) =>
                        /\ Delivered(s)' = Delivered(s) \o SubSeq(logs'[s], 1, k)
                        /\ subscriber'[s].completes = 1
         /\ (Polling(s) /\ pc[s] = "done") =>
               /\ pc'[s] = "done" /\ nReq'[s] = nReq[s]
               /\ Delivered(s)' = Delivered(s)]_vars

\* C3 witness: a recoverable task's polling subscription completed on a batch
\* that held further events behind its completion event.
C3_Witness ==
    \E s \in Subs :
        /\ Polling(s) /\ isTaskRecoverable[obsOf[s]]
        /\ subscriber[s].completes = 1 /\ pc[s] = "done"
        /\ HasCompletion(logs[s]) /\ FirstCompletion(logs[s]) < Len(logs[s])
        /\ Delivered(s) # <<>>
        /\ Delivered(s)[Len(Delivered(s))].type = "completion"

\* C4: in the event-stream transport with isTaskRecoverable = true, a
\* completion frame is forwarded like any other frame, the subscription
\* stays open (unless the observer itself unsubscribes), the connection is
\* not aborted, and every frame with a valid payload that reaches the open
\* subscription, before or after it, is forwarded.
C4_RecoverableCompletionKeepsStreaming ==
    [][\A s \in Subs : \A e \in Frames :
         (/\ isTaskRecoverable[obsOf[s]] /\ ~Closed(s)
          /\ e.data.kind = "json" /\ StepOnMessage(s, e)) =>
            /\ Delivered(s)' = Append(Delivered(s), [id |-> e.data.id, type |-> e.data.type])
            /\ pc'[s] = pc[s]
            /\ subscriber'[s].completes = 0 /\ subscriber'[s].errors = 0
            /\ Closed(s)' => subscriber'[s].cancelled]_vars

\* C4 witness: a recoverable task's open stream forwarded a completion event
\* and then a later event, and is still open.
C4_Witness ==
    \E s \in Subs :
        /\ EventStream(s) /\ isTaskRecoverable[obsOf[s]]
        /\ pc[s] = "open" /\ ~Closed(s)
        /\ Len(Delivered(s)) = 2
        /\ Delivered(s)[1].type = "completion" /\ Delivered(s)[2].type = "log"

C6_PollingRetriesOnFailure ==
    [][\A s \in Subs :
         /\ (Polling(s) /\ nFail'[s] # nFail[s]) =>
               /\ subscriber'[s] = subscriber[s]
               /\ pc'[s] = "delay" /\ nReq'[s] = nReq[s]
         /\ (Polling(s) /\ pc[s] = "delay" /\ nDelay'[s] # nDelay[s] /\ ~Closed(s)) =>
               /\ subscriber'[s] = subscriber[s]
               /\ pc'[s] = "fetching" /\ nReq'[s] = nReq[s] + 1
               /\ reqAfter'[s] = reqAfter[s]]_vars

\* With one subscription per Observable: two consecutive failures were each followed by a delay and a
\* new request, and the subscription is open with nothing surfaced.
C6_Witness ==
    \E s \in Subs :
        /\ Polling(s) /\ ~Closed(s) /\ pc[s] = "fetching"
        /\ nFail[s] >= 2 /\ nDelay[s] = nFail[s]
        /\ subscriber[s].errors = 0

\* C7: a polling subscription that is never cancelled and gets k non-success
\* responses and then a successful batch holding a completion event has
\* issued exactly k+1 requests, k retry delays have elapsed, the subscriber
\* has received exactly the events of the batch up to and including the
\* completion event, in order, and the subscription is closed by completion.
C7_FailuresThenCompletion ==
    [][\A s \in Subs :
         (/\ StepFetchOk(s) /\ nOk[s] = 0
          /\ HasCompletion(logs'[s]) /\ ~subscriber'[s].cancelled) =>
            /\ nReq'[s] = nFail[s] + 1
            /\ nDelay'[s] = nFail[s]
            /\ Delivered(s)' = SubSeq(logs'[s], 1, FirstCompletion(logs'[s]))
            /\ subscriber'[s].completes = 1 /\ subscriber'[s].errors = 0
            /\ Closed(s)' /\ pc'[s] = "done"]_vars

\* C7 witness: [fail, fail, success([{id:1,log},{id:2,completion}])].
C7_Witness ==
    \E s \in Subs :
        /\ Polling(s) /\ nFail[s] = 2 /\ nOk[s] = 1 /\ nReq[s] = 3 /\ nDelay[s] = 2
        /\ logs[s] = <<[id |-> 1, type |-> "log"], [id |-> 2, type |-> "completion"]>>
        /\ Delivered(s) = logs[s]
        /\ subscriber[s].completes = 1 /\ pc[s] = "done"

\* C8: in the event-stream transport a frame of any name whose non-empty
\* payload is not valid JSON surfaces exactly one error and closes the
\* subscription; the frame is not forwarded and nothing is forwarded after.
C8_MalformedPayloadIsFatal ==
    [][\A s \in Subs :
         /\ \A e \in Frames :
              (~Closed(s) /\ e.data.kind = "bad" /\ StepOnMessage(s, e)) =>
                 /\ subscriber'[s].errors = 1 /\ Closed(s)'
                 /\ Delivered(s)' = Delivered(s)
                 /\ subscriber'[s].completes = 0 /\ ~subscriber'[s].cancelled
         /\ (EventStream(s) /\ subscriber[s].errors >= 1) =>
               /\ subscriber'[s].errors = 1
               /\ Delivered(s)' = Delivered(s)
               /\ subscriber'[s].completes = 0]_vars

\* C8 witness: on the first connection, with an event already forwarded, a
\* malformed frame errored the subscription; the connection is still open
\* and goes on dispatching frames.
C8_Witness ==
    \E s \in Subs :
        /\ EventStream(s) /\ nReq[s] = 1 /\ pc[s] = "open"
        /\ subscriber[s].errors = 1 /\ dispatching[s]
        /\ Len(Delivered(s)) = 1

\* C9 (as claimed): a failure to resolve the base address, a network failure
\* and an unparseable body each end as a terminal error, so a transport that
\* has stopped on a failure has a closed subscription.
C9_FailuresAreSurfaced ==
    \A s \in Subs :
        pc[s] \in {"dead", "failed"} =>
            Closed(s) /\ (subscriber[s].errors = 1 \/ subscriber[s].cancelled)

\* C10 (as claimed): with a server that sends only events above the cursor
\* of the request, a subscription started with after = c never forwards an
\* event with ordinal <= c.
C10_NothingAtOrBelowCursor ==
    \A s \in Subs :
        cursorHonoured[s] =>
            \A i \in 1..Len(Delivered(s)) : Delivered(s)[i].id > inputAfter[obsOf[s]]

\* C12: cancelling a subscription that is already closed (by an earlier
\* cancel, by completion or by error) notifies nobody and changes neither the
\* subscription nor the transport: no abort, no request, no connection, no
\* cursor change.
C12_CancelIsIdempotent ==
    [][\A s \in Subs :
         (Closed(s) /\ Unsubscribe(s)) =>
            /\ subscriber' = subscriber
            /\ pc' = pc /\ dispatching' = dispatching
            /\ nReq' = nReq /\ reqAfter' = reqAfter /\ after' = after
            /\ nFail' = nFail /\ nDelay' = nDelay /\ nOk' = nOk]_vars

\* C12 witness: the caller cancelled, then cancelled again, while the
\* request of the subscription was still in flight.
C12_Witness ==
    \E s \in Subs :
        /\ recancelled[s] /\ subscriber[s].cancelled
        /\ pc[s] \in {"fetching", "open"}
        /\ subscriber[s].errors = 0 /\ subscriber[s].completes = 0

\* C13: the transport is the one the constructor option selects (event
\* stream when the option is absent), it never changes, and every request a
\* subscription issues, also after failed responses, errors and
\* completions, goes to the endpoint of that transport.
C13_TransportIsFixed ==
    [][/\ useLongPollingLogs' = useLongPollingLogs
       /\ ~constructorUseLongPollingLogs("undefined")
       /\ \A s \in Subs :
            /\ nReq'[s] # nReq[s] =>
                  pc'[s] = IF useLongPollingLogs THEN "fetching" ELSE "connecting"
            /\ useLongPollingLogs =>
                  pc'[s] \notin {"connecting", "open", "retrying", "ended", "aborted", "failed"}
            /\ ~useLongPollingLogs =>
                  pc'[s] \notin {"fetching", "delay", "done", "dead"}]_vars

\* C13 witness: an event-stream subscription whose connection failed is
\* connecting again, to the eventstream endpoint.
C13_Witness ==
    \E s \in Subs :
        /\ ~useLongPollingLogs /\ subscriber[s].errors = 1
        /\ nReq[s] = 2 /\ pc[s] = "connecting"

\* C14 (as claimed): in the event-stream transport a transport-level error
\* reported through onerror closes the subscription, and afterwards no new
\* connection request is issued for it.
C14_NoReconnectAfterError ==
    [][\A s \in Subs :
         /\ (ConnectionFailed(s) \/ ConnectionDropped(s)) => Closed(s)'
         /\ pc[s] = "retrying" => (nReq'[s] = nReq[s] /\ pc'[s] = "retrying")]_vars

\* C17: in the polling transport a batch request is issued only at a moment
\* when the subscription is open, and once the caller has cancelled (before
\* the base address resolved, while a request is in flight or during a
\* retry delay) the loop issues no further request and stops when the
\* pending resolution, fetch or delay finishes.
C17_LoopObservesClose ==
    [][\A s \in Subs :
         Polling(s) =>
            /\ nReq'[s] # nReq[s] => (~Closed(s) /\ ~Closed(s)')
            /\ (Closed(s) /\ pc'[s] # pc[s]) =>
                  /\ nReq'[s] = nReq[s]
                  /\ pc[s] = "resolving" => pc'[s] \in {"done", "dead"}
                  /\ pc[s] = "fetching" => pc'[s] \in {"done", "dead", "delay"}
                  /\ pc[s] = "delay" => pc'[s] = "done"]_vars

\* C17 witness: the caller cancelled after the first request had failed, and
\* the loop stopped when the retry delay elapsed without a second request.
C17_Witness ==
    \E s \in Subs :
        /\ Polling(s) /\ subscriber[s].cancelled /\ pc[s] = "done"
        /\ nReq[s] = 1 /\ nFail[s] = 1 /\ nDelay[s] = 1 /\ nOk[s] = 0

\* C18: a subscription is closed by exactly one of completion, error and
\* cancellation, the subscriber is notified at most once, and a closed
\* subscription stays closed with the same outcome; a non-recoverable
\* completion frame with a malformed payload gives an error, no completion.
C18_TerminalOutcomeIsUnique ==
    [][\A s \in Subs :
         /\ LET sub == subscriber'[s]
            IN sub.errors + sub.completes + (IF sub.cancelled THEN 1 ELSE 0)
                  = (IF sub.closed THEN 1 ELSE 0)
         /\ Closed(s) =>
               /\ Closed(s)'
               /\ subscriber'[s].errors = subscriber[s].errors
               /\ subscriber'[s].completes = subscriber[s].completes
               /\ subscriber'[s].cancelled = subscriber[s].cancelled
         /\ \A e \in Frames :
               (/\ ~isTaskRecoverable[obsOf[s]] /\ ~Closed(s)
                /\ e.event = "completion" /\ e.data.kind = "bad"
                /\ StepOnMessage(s, e)) =>
                  /\ subscriber'[s].errors = 1 /\ subscriber'[s].completes = 0
                  /\ pc'[s] = "aborted"]_vars

\* C18 witness: a non-recoverable stream that forwarded nothing was errored
\* and its connection aborted, with no completion notified.
C18_Witness ==
    \E s \in Subs :
        /\ EventStream(s) /\ ~isTaskRecoverable[obsOf[s]]
        /\ pc[s] = "aborted" /\ nReq[s] = 1
        /\ subscriber[s].errors = 1 /\ subscriber[s].completes = 0
        /\ Delivered(s) = <<>>

\* C19: in the event-stream transport a frame named neither log nor
\* completion is handled as the same frame named log would be: a valid
\* payload is forwarded and the subscription stays open, a malformed one
\* surfaces an error; the connection is not aborted and nothing completes.
C19_OtherNamesLikeLog ==
    [][\A s \in Subs : \A e \in Frames :
         (e.event \notin {"log", "completion"} /\ ~Closed(s) /\ StepOnMessage(s, e)) =>
            /\ pc'[s] = pc[s] /\ subscriber'[s].completes = 0
            /\ e.data.kind = "json" =>
                  /\ Delivered(s)' = Append(Delivered(s), [id |-> e.data.id, type |-> e.data.type])
                  /\ subscriber'[s].errors = 0
                  /\ Closed(s)' => subscriber'[s].cancelled
            /\ e.data.kind = "bad" =>
                  /\ Delivered(s)' = Delivered(s)
                  /\ subscriber'[s].errors = 1 /\ Closed(s)'
            /\ \E unsub \in BOOLEAN :
                  subscriber'[s] = onmessage([e EXCEPT !.event = "log"],
                                             isTaskRecoverable[obsOf[s]], unsub,
                                             subscriber[s]).sub]_vars

\* C19 witness: a non-recoverable stream forwarded the event of a frame
\* with another name and is still open.
C19_Witness ==
    \E s \in Subs :
        /\ EventStream(s) /\ ~isTaskRecoverable[obsOf[s]]
        /\ pc[s] = "open" /\ ~Closed(s)
        /\ Delivered(s) # <<>> /\ Delivered(s)[Len(Delivered(s))].type = "other"

\* C20: in the event-stream transport a frame with an empty payload is never
\* forwarded and never surfaces an error; a completion frame with an empty
\* payload completes a non-recoverable subscription and aborts its
\* connection with no event delivered, and every other empty frame (any
\* frame of a recoverable task included) leaves subscriber and connection
\* as they were.
C20_EmptyPayload ==
    [][\A s \in Subs : \A e \in Frames :
         (e.data.kind = "empty" /\ StepOnMessage(s, e)) =>
            /\ Delivered(s)' = Delivered(s)
            /\ subscriber'[s].errors = subscriber[s].errors
            /\ IF e.event = "completion" /\ ~isTaskRecoverable[obsOf[s]]
               THEN /\ pc'[s] = "aborted" /\ Closed(s)'
                    /\ ~Closed(s) => subscriber'[s].completes = 1
               ELSE subscriber'[s] = subscriber[s] /\ pc'[s] = pc[s]]_vars

\* C20 witness: a non-recoverable subscription was completed and its
\* connection aborted though no event was ever delivered.
C20_Witness ==
    \E s \in Subs :
        /\ EventStream(s) /\ ~isTaskRecoverable[obsOf[s]]
        /\ pc[s] = "aborted" /\ subscriber[s].completes = 1
        /\ Delivered(s) = <<>>

\* The ordinals of a batch.
Ids(batch) == {batch[i].id : i \in 1..Len(batch)}

\* C11 (as claimed): while the source sends each batch, and the frames of
\* each connection, in non-decreasing ordinal order and only events after
\* the cursor it was sent, the ordinals forwarded to one subscriber stay in
\* non-decreasing order, across batches, retries and reconnects.
C11_OrdinalsNonDecreasing ==
    [][\A s \in Subs :
         /\ (/\ NonDecreasing(Delivered(s)) /\ cursorHonoured'[s]
             /\ StepFetchOk(s) /\ NonDecreasing(logs'[s])) =>
               NonDecreasing(Delivered(s)')
         /\ \A e \in Frames :
               (/\ NonDecreasing(Delivered(s)) /\ StepOnMessage(s, e)
                /\ e.data.kind = "json"
                /\ \A i \in 1..Len(Delivered(s)) : Delivered(s)[i].id <= e.data.id) =>
                  NonDecreasing(Delivered(s)')
         /\ (EventStream(s) /\ nReq[s] >= 2) => Delivered(s)' = Delivered(s)]_vars

\* C15 (as claimed): the cursor a polling subscription sends depends only on
\* the initial cursor and on the batches this subscription received: until
\* it has received a batch every request carries the initial cursor, and
\* the request after a failed response carries the cursor of the request
\* that failed, whatever other subscriptions process meanwhile.
C15_CursorIsPrivate ==
    [][\A s \in Subs :
         (Polling(s) /\ nReq'[s] # nReq[s]) =>
            /\ nOk'[s] = 0 => reqAfter'[s] = inputAfter[obsOf[s]]
            /\ pc[s] = "delay" => reqAfter'[s] = reqAfter[s]]_vars

\* C16 (as claimed): given sorted batches from a server that sends only
\* events after the cursor, the cursor of the successive polling requests
\* of a subscription never decreases: the first request carries the initial
\* cursor, the request after a non-empty batch the ordinal of its last
\* event, which is the last event forwarded, and the request after a failed
\* response or an empty batch the cursor of the request before.
C16_CursorFollowsLastEvent ==
    [][\A s \in Subs :
         (Polling(s) /\ nReq'[s] # nReq[s]) =>
            /\ nReq[s] = 0 => reqAfter'[s] = inputAfter[obsOf[s]]
            /\ (/\ StepFetchOk(s) /\ NonDecreasing(logs'[s])
                /\ Honours(reqAfter[s], Ids(logs'[s]))) =>
                  reqAfter'[s] >= reqAfter[s]
            /\ (StepFetchOk(s) /\ logs'[s] # <<>>) =>
                  /\ reqAfter'[s] = logs'[s][Len(logs'[s])].id
                  /\ Delivered(s)' # <<>>
                  /\ Delivered(s)'[Len(Delivered(s)')] = logs'[s][Len(logs'[s])]
            /\ (pc[s] = "delay" \/ (StepFetchOk(s) /\ logs'[s] = <<>>)) =>
                  reqAfter'[s] = reqAfter[s]]_vars

====
